---- MODULE Spec2Model ----
(***************************************************************************)
(* Model of the document-utilities service, services/docutils/server.py.   *)
(*                                                                         *)
(* Strings are sequences of code points (".pdf" is <<46,112,100,102>>) so  *)
(* that os.path.splitext, str.lower, sorted and ', '.join are computed as  *)
(* Python computes them.  The service runs on one asyncio event loop: the  *)
(* code of a handler between two awaits runs without interleaving, which   *)
(* the variable loop records.                                              *)
(***************************************************************************)
EXTENDS Integers, Sequences, FiniteSets, TLC

(* ------------------------------ bounds --------------------------------- *)
MaxReqs == 2          \* requests sent to the service in one behaviour
MaxClock == 3         \* ticks of the wall clock in one behaviour
MaxNameLen == 4       \* code points of a declared filename
MaxTextLen == 3       \* bytes of a plain-text upload
MaxItems == 2         \* pages, paragraphs, rows, slides or nodes of a document

Reqs == 1..MaxReqs
\* names of the temporary directory: every request creates at most one
\* file, so a fresh name is always left
Paths == 1..MaxReqs
NoReq == 0
NoPath == 0

(* ------------------------------ strings -------------------------------- *)
\* "document", the default of line 209
DefaultName == <<100, 111, 99, 117, 109, 101, 110, 116>>

\* declared filenames of the uploads
a_pdf == <<97, 46, 112, 100, 102>>      \* "a.pdf"
n_md == <<110, 46, 109, 100>>           \* "n.md"
r_zz == <<114, 46, 122, 122>>           \* "r.zz", no registered extension
no_name == <<>>                         \* the upload declares no filename

\* payloads of the uploads
no_bytes == <<>>                        \* an empty upload
two_bytes == <<72, 10>>                 \* "H\n"

\* values of the 'pages' form field
no_pages == <<>>                        \* the default, ""
some_pages == <<49, 45, 53>>            \* "1-5"
one_page == <<50>>                      \* "2"
bad_pages == <<120>>                    \* "x"

\* str(e) of an exception: a text, followed by the path of a file in quotes
\* when path is not NoPath
Message(text) == [text |-> text, path |-> NoPath]

\* str(e) of the exceptions a format library raises
Messages == { Message("bad file") }

\* the code points above 'Z' that str.lower() maps to one other code point:
\* <<lo, hi, step, d>> maps lo, lo + step, ..., hi to themselves plus d
LowerRules == {
    <<192, 214, 1, 32>>, <<216, 222, 1, 32>>, <<256, 302, 2, 1>>, <<306, 310, 2, 1>>,
    <<313, 327, 2, 1>>, <<330, 374, 2, 1>>, <<376, 376, 1, -121>>, <<377, 381, 2, 1>>,
    <<385, 385, 1, 210>>, <<386, 388, 2, 1>>, <<390, 390, 1, 206>>, <<391, 391, 1, 1>>,
    <<393, 394, 1, 205>>, <<395, 395, 1, 1>>, <<398, 398, 1, 79>>, <<399, 399, 1, 202>>,
    <<400, 400, 1, 203>>, <<401, 401, 1, 1>>, <<403, 403, 1, 205>>, <<404, 404, 1, 207>>,
    <<406, 406, 1, 211>>, <<407, 407, 1, 209>>, <<408, 408, 1, 1>>, <<412, 412, 1, 211>>,
    <<413, 413, 1, 213>>, <<415, 415, 1, 214>>, <<416, 420, 2, 1>>, <<422, 422, 1, 218>>,
    <<423, 423, 1, 1>>, <<425, 425, 1, 218>>, <<428, 428, 1, 1>>, <<430, 430, 1, 218>>,
    <<431, 431, 1, 1>>, <<433, 434, 1, 217>>, <<435, 437, 2, 1>>, <<439, 439, 1, 219>>,
    <<440, 440, 1, 1>>, <<444, 444, 1, 1>>, <<452, 452, 1, 2>>, <<453, 453, 1, 1>>,
    <<455, 455, 1, 2>>, <<456, 456, 1, 1>>, <<458, 458, 1, 2>>, <<459, 475, 2, 1>>,
    <<478, 494, 2, 1>>, <<497, 497, 1, 2>>, <<498, 500, 2, 1>>, <<502, 502, 1, -97>>,
    <<503, 503, 1, -56>>, <<504, 542, 2, 1>>, <<544, 544, 1, -130>>, <<546, 562, 2, 1>>,
    <<570, 570, 1, 10795>>, <<571, 571, 1, 1>>, <<573, 573, 1, -163>>, <<574, 574, 1, 10792>>,
    <<577, 577, 1, 1>>, <<579, 579, 1, -195>>, <<580, 580, 1, 69>>, <<581, 581, 1, 71>>,
    <<582, 590, 2, 1>>, <<880, 882, 2, 1>>, <<886, 886, 1, 1>>, <<895, 895, 1, 116>>,
    <<902, 902, 1, 38>>, <<904, 906, 1, 37>>, <<908, 908, 1, 64>>, <<910, 911, 1, 63>>,
    <<913, 929, 1, 32>>, <<931, 939, 1, 32>>, <<975, 975, 1, 8>>, <<984, 1006, 2, 1>>,
    <<1012, 1012, 1, -60>>, <<1015, 1015, 1, 1>>, <<1017, 1017, 1, -7>>, <<1018, 1018, 1, 1>>,
    <<1021, 1023, 1, -130>>, <<1024, 1039, 1, 80>>, <<1040, 1071, 1, 32>>, <<1120, 1152, 2, 1>>,
    <<1162, 1214, 2, 1>>, <<1216, 1216, 1, 15>>, <<1217, 1229, 2, 1>>, <<1232, 1326, 2, 1>>,
    <<1329, 1366, 1, 48>>, <<4256, 4293, 1, 7264>>, <<4295, 4295, 1, 7264>>, <<4301, 4301, 1, 7264>>,
    <<5024, 5103, 1, 38864>>, <<5104, 5109, 1, 8>>, <<7312, 7354, 1, -3008>>, <<7357, 7359, 1, -3008>>,
    <<7680, 7828, 2, 1>>, <<7838, 7838, 1, -7615>>, <<7840, 7934, 2, 1>>, <<7944, 7951, 1, -8>>,
    <<7960, 7965, 1, -8>>, <<7976, 7983, 1, -8>>, <<7992, 7999, 1, -8>>, <<8008, 8013, 1, -8>>,
    <<8025, 8031, 2, -8>>, <<8040, 8047, 1, -8>>, <<8072, 8079, 1, -8>>, <<8088, 8095, 1, -8>>,
    <<8104, 8111, 1, -8>>, <<8120, 8121, 1, -8>>, <<8122, 8123, 1, -74>>, <<8124, 8124, 1, -9>>,
    <<8136, 8139, 1, -86>>, <<8140, 8140, 1, -9>>, <<8152, 8153, 1, -8>>, <<8154, 8155, 1, -100>>,
    <<8168, 8169, 1, -8>>, <<8170, 8171, 1, -112>>, <<8172, 8172, 1, -7>>, <<8184, 8185, 1, -128>>,
    <<8186, 8187, 1, -126>>, <<8188, 8188, 1, -9>>, <<8486, 8486, 1, -7517>>, <<8490, 8490, 1, -8383>>,
    <<8491, 8491, 1, -8262>>, <<8498, 8498, 1, 28>>, <<8544, 8559, 1, 16>>, <<8579, 8579, 1, 1>>,
    <<9398, 9423, 1, 26>>, <<11264, 11311, 1, 48>>, <<11360, 11360, 1, 1>>, <<11362, 11362, 1, -10743>>,
    <<11363, 11363, 1, -3814>>, <<11364, 11364, 1, -10727>>, <<11367, 11371, 2, 1>>, <<11373, 11373, 1, -10780>>,
    <<11374, 11374, 1, -10749>>, <<11375, 11375, 1, -10783>>, <<11376, 11376, 1, -10782>>, <<11378, 11378, 1, 1>>,
    <<11381, 11381, 1, 1>>, <<11390, 11391, 1, -10815>>, <<11392, 11490, 2, 1>>, <<11499, 11501, 2, 1>>,
    <<11506, 11506, 1, 1>>, <<42560, 42604, 2, 1>>, <<42624, 42650, 2, 1>>, <<42786, 42798, 2, 1>>,
    <<42802, 42862, 2, 1>>, <<42873, 42875, 2, 1>>, <<42877, 42877, 1, -35332>>, <<42878, 42886, 2, 1>>,
    <<42891, 42891, 1, 1>>, <<42893, 42893, 1, -42280>>, <<42896, 42898, 2, 1>>, <<42902, 42920, 2, 1>>,
    <<42922, 42922, 1, -42308>>, <<42923, 42923, 1, -42319>>, <<42924, 42924, 1, -42315>>, <<42925, 42925, 1, -42305>>,
    <<42926, 42926, 1, -42308>>, <<42928, 42928, 1, -42258>>, <<42929, 42929, 1, -42282>>, <<42930, 42930, 1, -42261>>,
    <<42931, 42931, 1, 928>>, <<42932, 42946, 2, 1>>, <<42948, 42948, 1, -48>>, <<42949, 42949, 1, -42307>>,
    <<42950, 42950, 1, -35384>>, <<42951, 42953, 2, 1>>, <<42960, 42960, 1, 1>>, <<42966, 42968, 2, 1>>,
    <<42997, 42997, 1, 1>>, <<65313, 65338, 1, 32>>, <<66560, 66599, 1, 40>>, <<66736, 66771, 1, 40>>,
    <<66928, 66938, 1, 39>>, <<66940, 66954, 1, 39>>, <<66956, 66962, 1, 39>>, <<66964, 66965, 1, 39>>,
    <<68736, 68786, 1, 64>>, <<71840, 71871, 1, 32>>, <<93760, 93791, 1, 32>>, <<125184, 125217, 1, 34>> }

\* the ranges <<lo, hi>> of the code points that are cased and cannot be
\* ignored when str.lower() looks for the letters around a capital sigma
CasedRanges == {
    <<65, 90>>, <<97, 122>>, <<170, 170>>, <<181, 181>>, <<186, 186>>, <<192, 214>>,
    <<216, 246>>, <<248, 442>>, <<444, 447>>, <<452, 659>>, <<661, 687>>, <<880, 883>>,
    <<886, 887>>, <<891, 893>>, <<895, 895>>, <<902, 902>>, <<904, 906>>, <<908, 908>>,
    <<910, 929>>, <<931, 1013>>, <<1015, 1153>>, <<1162, 1327>>, <<1329, 1366>>, <<1376, 1416>>,
    <<4256, 4293>>, <<4295, 4295>>, <<4301, 4301>>, <<4304, 4346>>, <<4349, 4351>>, <<5024, 5109>>,
    <<5112, 5117>>, <<7296, 7304>>, <<7312, 7354>>, <<7357, 7359>>, <<7424, 7467>>, <<7531, 7543>>,
    <<7545, 7578>>, <<7680, 7957>>, <<7960, 7965>>, <<7968, 8005>>, <<8008, 8013>>, <<8016, 8023>>,
    <<8025, 8025>>, <<8027, 8027>>, <<8029, 8029>>, <<8031, 8061>>, <<8064, 8116>>, <<8118, 8124>>,
    <<8126, 8126>>, <<8130, 8132>>, <<8134, 8140>>, <<8144, 8147>>, <<8150, 8155>>, <<8160, 8172>>,
    <<8178, 8180>>, <<8182, 8188>>, <<8450, 8450>>, <<8455, 8455>>, <<8458, 8467>>, <<8469, 8469>>,
    <<8473, 8477>>, <<8484, 8484>>, <<8486, 8486>>, <<8488, 8488>>, <<8490, 8493>>, <<8495, 8500>>,
    <<8505, 8505>>, <<8508, 8511>>, <<8517, 8521>>, <<8526, 8526>>, <<8544, 8575>>, <<8579, 8580>>,
    <<9398, 9449>>, <<11264, 11387>>, <<11390, 11492>>, <<11499, 11502>>, <<11506, 11507>>, <<11520, 11557>>,
    <<11559, 11559>>, <<11565, 11565>>, <<42560, 42605>>, <<42624, 42651>>, <<42786, 42863>>, <<42865, 42887>>,
    <<42891, 42894>>, <<42896, 42954>>, <<42960, 42961>>, <<42963, 42963>>, <<42965, 42969>>, <<42997, 42998>>,
    <<43002, 43002>>, <<43824, 43866>>, <<43872, 43880>>, <<43888, 43967>>, <<64256, 64262>>, <<64275, 64279>>,
    <<65313, 65338>>, <<65345, 65370>>, <<66560, 66639>>, <<66736, 66771>>, <<66776, 66811>>, <<66928, 66938>>,
    <<66940, 66954>>, <<66956, 66962>>, <<66964, 66965>>, <<66967, 66977>>, <<66979, 66993>>, <<66995, 67001>>,
    <<67003, 67004>>, <<68736, 68786>>, <<68800, 68850>>, <<71840, 71903>>, <<93760, 93823>>, <<119808, 119892>>,
    <<119894, 119964>>, <<119966, 119967>>, <<119970, 119970>>, <<119973, 119974>>, <<119977, 119980>>, <<119982, 119993>>,
    <<119995, 119995>>, <<119997, 120003>>, <<120005, 120069>>, <<120071, 120074>>, <<120077, 120084>>, <<120086, 120092>>,
    <<120094, 120121>>, <<120123, 120126>>, <<120128, 120132>>, <<120134, 120134>>, <<120138, 120144>>, <<120146, 120485>>,
    <<120488, 120512>>, <<120514, 120538>>, <<120540, 120570>>, <<120572, 120596>>, <<120598, 120628>>, <<120630, 120654>>,
    <<120656, 120686>>, <<120688, 120712>>, <<120714, 120744>>, <<120746, 120770>>, <<120772, 120779>>, <<122624, 122633>>,
    <<122635, 122654>>, <<125184, 125251>>, <<127280, 127305>>, <<127312, 127337>>, <<127344, 127369>> }

\* the ranges <<lo, hi>> of the code points str.lower() skips when it looks
\* for the letters around a capital sigma
CaseIgnorableRanges == {
    <<39, 39>>, <<46, 46>>, <<58, 58>>, <<94, 94>>, <<96, 96>>, <<168, 168>>,
    <<173, 173>>, <<175, 175>>, <<180, 180>>, <<183, 184>>, <<688, 879>>, <<884, 885>>,
    <<890, 890>>, <<900, 901>>, <<903, 903>>, <<1155, 1161>>, <<1369, 1369>>, <<1375, 1375>>,
    <<1425, 1469>>, <<1471, 1471>>, <<1473, 1474>>, <<1476, 1477>>, <<1479, 1479>>, <<1524, 1524>>,
    <<1536, 1541>>, <<1552, 1562>>, <<1564, 1564>>, <<1600, 1600>>, <<1611, 1631>>, <<1648, 1648>>,
    <<1750, 1757>>, <<1759, 1768>>, <<1770, 1773>>, <<1807, 1807>>, <<1809, 1809>>, <<1840, 1866>>,
    <<1958, 1968>>, <<2027, 2037>>, <<2042, 2042>>, <<2045, 2045>>, <<2070, 2093>>, <<2137, 2139>>,
    <<2184, 2184>>, <<2192, 2193>>, <<2200, 2207>>, <<2249, 2306>>, <<2362, 2362>>, <<2364, 2364>>,
    <<2369, 2376>>, <<2381, 2381>>, <<2385, 2391>>, <<2402, 2403>>, <<2417, 2417>>, <<2433, 2433>>,
    <<2492, 2492>>, <<2497, 2500>>, <<2509, 2509>>, <<2530, 2531>>, <<2558, 2558>>, <<2561, 2562>>,
    <<2620, 2620>>, <<2625, 2626>>, <<2631, 2632>>, <<2635, 2637>>, <<2641, 2641>>, <<2672, 2673>>,
    <<2677, 2677>>, <<2689, 2690>>, <<2748, 2748>>, <<2753, 2757>>, <<2759, 2760>>, <<2765, 2765>>,
    <<2786, 2787>>, <<2810, 2815>>, <<2817, 2817>>, <<2876, 2876>>, <<2879, 2879>>, <<2881, 2884>>,
    <<2893, 2893>>, <<2901, 2902>>, <<2914, 2915>>, <<2946, 2946>>, <<3008, 3008>>, <<3021, 3021>>,
    <<3072, 3072>>, <<3076, 3076>>, <<3132, 3132>>, <<3134, 3136>>, <<3142, 3144>>, <<3146, 3149>>,
    <<3157, 3158>>, <<3170, 3171>>, <<3201, 3201>>, <<3260, 3260>>, <<3263, 3263>>, <<3270, 3270>>,
    <<3276, 3277>>, <<3298, 3299>>, <<3328, 3329>>, <<3387, 3388>>, <<3393, 3396>>, <<3405, 3405>>,
    <<3426, 3427>>, <<3457, 3457>>, <<3530, 3530>>, <<3538, 3540>>, <<3542, 3542>>, <<3633, 3633>>,
    <<3636, 3642>>, <<3654, 3662>>, <<3761, 3761>>, <<3764, 3772>>, <<3782, 3782>>, <<3784, 3789>>,
    <<3864, 3865>>, <<3893, 3893>>, <<3895, 3895>>, <<3897, 3897>>, <<3953, 3966>>, <<3968, 3972>>,
    <<3974, 3975>>, <<3981, 3991>>, <<3993, 4028>>, <<4038, 4038>>, <<4141, 4144>>, <<4146, 4151>>,
    <<4153, 4154>>, <<4157, 4158>>, <<4184, 4185>>, <<4190, 4192>>, <<4209, 4212>>, <<4226, 4226>>,
    <<4229, 4230>>, <<4237, 4237>>, <<4253, 4253>>, <<4348, 4348>>, <<4957, 4959>>, <<5906, 5908>>,
    <<5938, 5939>>, <<5970, 5971>>, <<6002, 6003>>, <<6068, 6069>>, <<6071, 6077>>, <<6086, 6086>>,
    <<6089, 6099>>, <<6103, 6103>>, <<6109, 6109>>, <<6155, 6159>>, <<6211, 6211>>, <<6277, 6278>>,
    <<6313, 6313>>, <<6432, 6434>>, <<6439, 6440>>, <<6450, 6450>>, <<6457, 6459>>, <<6679, 6680>>,
    <<6683, 6683>>, <<6742, 6742>>, <<6744, 6750>>, <<6752, 6752>>, <<6754, 6754>>, <<6757, 6764>>,
    <<6771, 6780>>, <<6783, 6783>>, <<6823, 6823>>, <<6832, 6862>>, <<6912, 6915>>, <<6964, 6964>>,
    <<6966, 6970>>, <<6972, 6972>>, <<6978, 6978>>, <<7019, 7027>>, <<7040, 7041>>, <<7074, 7077>>,
    <<7080, 7081>>, <<7083, 7085>>, <<7142, 7142>>, <<7144, 7145>>, <<7149, 7149>>, <<7151, 7153>>,
    <<7212, 7219>>, <<7222, 7223>>, <<7288, 7293>>, <<7376, 7378>>, <<7380, 7392>>, <<7394, 7400>>,
    <<7405, 7405>>, <<7412, 7412>>, <<7416, 7417>>, <<7468, 7530>>, <<7544, 7544>>, <<7579, 7679>>,
    <<8125, 8125>>, <<8127, 8129>>, <<8141, 8143>>, <<8157, 8159>>, <<8173, 8175>>, <<8189, 8190>>,
    <<8203, 8207>>, <<8216, 8217>>, <<8228, 8228>>, <<8231, 8231>>, <<8234, 8238>>, <<8288, 8292>>,
    <<8294, 8303>>, <<8305, 8305>>, <<8319, 8319>>, <<8336, 8348>>, <<8400, 8432>>, <<11388, 11389>>,
    <<11503, 11505>>, <<11631, 11631>>, <<11647, 11647>>, <<11744, 11775>>, <<11823, 11823>>, <<12293, 12293>>,
    <<12330, 12333>>, <<12337, 12341>>, <<12347, 12347>>, <<12441, 12446>>, <<12540, 12542>>, <<40981, 40981>>,
    <<42232, 42237>>, <<42508, 42508>>, <<42607, 42610>>, <<42612, 42621>>, <<42623, 42623>>, <<42652, 42655>>,
    <<42736, 42737>>, <<42752, 42785>>, <<42864, 42864>>, <<42888, 42890>>, <<42994, 42996>>, <<43000, 43001>>,
    <<43010, 43010>>, <<43014, 43014>>, <<43019, 43019>>, <<43045, 43046>>, <<43052, 43052>>, <<43204, 43205>>,
    <<43232, 43249>>, <<43263, 43263>>, <<43302, 43309>>, <<43335, 43345>>, <<43392, 43394>>, <<43443, 43443>>,
    <<43446, 43449>>, <<43452, 43453>>, <<43471, 43471>>, <<43493, 43494>>, <<43561, 43566>>, <<43569, 43570>>,
    <<43573, 43574>>, <<43587, 43587>>, <<43596, 43596>>, <<43632, 43632>>, <<43644, 43644>>, <<43696, 43696>>,
    <<43698, 43700>>, <<43703, 43704>>, <<43710, 43711>>, <<43713, 43713>>, <<43741, 43741>>, <<43756, 43757>>,
    <<43763, 43764>>, <<43766, 43766>>, <<43867, 43871>>, <<43881, 43883>>, <<44005, 44005>>, <<44008, 44008>>,
    <<44013, 44013>>, <<64286, 64286>>, <<64434, 64450>>, <<65024, 65039>>, <<65043, 65043>>, <<65056, 65071>>,
    <<65106, 65106>>, <<65109, 65109>>, <<65279, 65279>>, <<65287, 65287>>, <<65294, 65294>>, <<65306, 65306>>,
    <<65342, 65342>>, <<65344, 65344>>, <<65392, 65392>>, <<65438, 65439>>, <<65507, 65507>>, <<65529, 65531>>,
    <<66045, 66045>>, <<66272, 66272>>, <<66422, 66426>>, <<67456, 67461>>, <<67463, 67504>>, <<67506, 67514>>,
    <<68097, 68099>>, <<68101, 68102>>, <<68108, 68111>>, <<68152, 68154>>, <<68159, 68159>>, <<68325, 68326>>,
    <<68900, 68903>>, <<69291, 69292>>, <<69446, 69456>>, <<69506, 69509>>, <<69633, 69633>>, <<69688, 69702>>,
    <<69744, 69744>>, <<69747, 69748>>, <<69759, 69761>>, <<69811, 69814>>, <<69817, 69818>>, <<69821, 69821>>,
    <<69826, 69826>>, <<69837, 69837>>, <<69888, 69890>>, <<69927, 69931>>, <<69933, 69940>>, <<70003, 70003>>,
    <<70016, 70017>>, <<70070, 70078>>, <<70089, 70092>>, <<70095, 70095>>, <<70191, 70193>>, <<70196, 70196>>,
    <<70198, 70199>>, <<70206, 70206>>, <<70367, 70367>>, <<70371, 70378>>, <<70400, 70401>>, <<70459, 70460>>,
    <<70464, 70464>>, <<70502, 70508>>, <<70512, 70516>>, <<70712, 70719>>, <<70722, 70724>>, <<70726, 70726>>,
    <<70750, 70750>>, <<70835, 70840>>, <<70842, 70842>>, <<70847, 70848>>, <<70850, 70851>>, <<71090, 71093>>,
    <<71100, 71101>>, <<71103, 71104>>, <<71132, 71133>>, <<71219, 71226>>, <<71229, 71229>>, <<71231, 71232>>,
    <<71339, 71339>>, <<71341, 71341>>, <<71344, 71349>>, <<71351, 71351>>, <<71453, 71455>>, <<71458, 71461>>,
    <<71463, 71467>>, <<71727, 71735>>, <<71737, 71738>>, <<71995, 71996>>, <<71998, 71998>>, <<72003, 72003>>,
    <<72148, 72151>>, <<72154, 72155>>, <<72160, 72160>>, <<72193, 72202>>, <<72243, 72248>>, <<72251, 72254>>,
    <<72263, 72263>>, <<72273, 72278>>, <<72281, 72283>>, <<72330, 72342>>, <<72344, 72345>>, <<72752, 72758>>,
    <<72760, 72765>>, <<72767, 72767>>, <<72850, 72871>>, <<72874, 72880>>, <<72882, 72883>>, <<72885, 72886>>,
    <<73009, 73014>>, <<73018, 73018>>, <<73020, 73021>>, <<73023, 73029>>, <<73031, 73031>>, <<73104, 73105>>,
    <<73109, 73109>>, <<73111, 73111>>, <<73459, 73460>>, <<78896, 78904>>, <<92912, 92916>>, <<92976, 92982>>,
    <<92992, 92995>>, <<94031, 94031>>, <<94095, 94111>>, <<94176, 94177>>, <<94179, 94180>>, <<110576, 110579>>,
    <<110581, 110587>>, <<110589, 110590>>, <<113821, 113822>>, <<113824, 113827>>, <<118528, 118573>>, <<118576, 118598>>,
    <<119143, 119145>>, <<119155, 119170>>, <<119173, 119179>>, <<119210, 119213>>, <<119362, 119364>>, <<121344, 121398>>,
    <<121403, 121452>>, <<121461, 121461>>, <<121476, 121476>>, <<121499, 121503>>, <<121505, 121519>>, <<122880, 122886>>,
    <<122888, 122904>>, <<122907, 122913>>, <<122915, 122916>>, <<122918, 122922>>, <<123184, 123197>>, <<123566, 123566>>,
    <<123628, 123631>>, <<125136, 125142>>, <<125252, 125259>>, <<127995, 127999>>, <<917505, 917505>>, <<917536, 917631>>,
    <<917760, 917999>> }

Cased(c) == \E rg \in CasedRanges : rg[1] <= c /\ c <= rg[2]

CaseIgnorable(c) == \E rg \in CaseIgnorableRanges : rg[1] <= c /\ c <= rg[2]

\* str.lower() on one code point that lowers to one code point
LowerChar(c) ==
    IF c < 128 THEN IF c >= 65 /\ c <= 90 THEN c + 32 ELSE c
    ELSE LET R == {rule \in LowerRules :
                      /\ rule[1] <= c /\ c <= rule[2]
                      /\ (c - rule[1]) % rule[3] = 0}
         IN IF R = {} THEN c ELSE c + (CHOOSE rule \in R : TRUE)[4]

\* a capital sigma at s[i] is final: a cased letter precedes it and none
\* follows it, code points that can be ignored skipped
final_sigma(s, i) ==
    LET before == {j \in 1..(i - 1) : ~CaseIgnorable(s[j])}
        after == {j \in (i + 1)..Len(s) : ~CaseIgnorable(s[j])}
    IN /\ before # {}
       /\ Cased(s[CHOOSE j \in before : \A k \in before : k <= j])
       /\ ~(after # {} /\ Cased(s[CHOOSE j \in after : \A k \in after : j <= k]))

\* the code points str.lower() puts for s[i]: U+0130 lowers to 'i' and
\* U+0307, a capital sigma to a final or a medial small sigma
lower_at(s, i) ==
    IF s[i] = 304 THEN <<105, 775>>
    ELSE IF s[i] = 931 THEN <<IF final_sigma(s, i) THEN 962 ELSE 963>>
    ELSE <<LowerChar(s[i])>>

RECURSIVE lower_from(_, _)
\* str.lower() of s from position i on
lower_from(s, i) == IF i > Len(s) THEN <<>> ELSE lower_at(s, i) \o lower_from(s, i + 1)

\* str.lower() that leaves every code point as it is
lower_unchanged(s) == s

\* str.lower()
lower(s) == lower_from(s, 1)

\* str.rfind(ch) with 0-based result, -1 when absent
rfind(s, ch) ==
    LET I == {i \in 1..Len(s) : s[i] = ch}
    IN IF I = {} THEN -1 ELSE (CHOOSE i \in I : \A j \in I : j <= i) - 1

\* os.path.splitext(p)[1]: the extension starts at the last dot, unless
\* that dot is before the last '/' or only dots precede it in the basename
splitext_ext(p) ==
    LET sepIndex == rfind(p, 47)
        dotIndex == rfind(p, 46)
    IN IF dotIndex > sepIndex
          /\ \E k \in (sepIndex + 1)..(dotIndex - 1) : p[k + 1] # 46
       THEN SubSeq(p, dotIndex + 1, Len(p))
       ELSE <<>>

\* s < t in Python's string order (by code point, a prefix first)
StrLess(s, t) ==
    \E k \in 0..Len(s) :
        /\ k <= Len(t)
        /\ \A i \in 1..k : s[i] = t[i]
        /\ \/ k = Len(s) /\ k < Len(t)
           \/ k < Len(s) /\ k < Len(t) /\ s[k + 1] < t[k + 1]

RECURSIVE SortedSeq(_)
\* the elements of the set S in ascending string order
SortedSeq(S) ==
    IF S = {} THEN <<>>
    ELSE LET m == CHOOSE x \in S : \A y \in S \ {x} : StrLess(x, y)
         IN <<m>> \o SortedSeq(S \ {m})

\* sorted(keys) for a list of distinct strings
sorted(keys) == SortedSeq({keys[i] : i \in 1..Len(keys)})

RECURSIVE join(_, _)
\* sep.join(list)
join(sep, list) ==
    IF list = <<>> THEN <<>>
    ELSE IF Len(list) = 1 THEN list[1]
    ELSE list[1] \o sep \o join(sep, Tail(list))

\* the characters str.strip() removes: the white space of Unicode, which
\* includes the separators U+001C to U+001F
IsSpace(c) ==
    c \in {9, 10, 11, 12, 13, 28, 29, 30, 31, 32, 133, 160, 5760} \cup (8192..8202)
             \cup {8232, 8233, 8239, 8287, 12288}

\* str.strip()
strip(s) ==
    LET I == {i \in 1..Len(s) : ~IsSpace(s[i])}
    IN IF I = {} THEN <<>>
       ELSE SubSeq(s, CHOOSE i \in I : \A j \in I : i <= j,
                      CHOOSE i \in I : \A j \in I : j <= i)

\* [x for x in list if x], for a list of strings
NonEmpty(list) == SelectSeq(list, LAMBDA x : x # <<>>)

(* ------------------------------ registry ------------------------------- *)
\* the dict of lines 174-189, in insertion order
PARSERS ==
    << <<<<46, 112, 100, 102>>, "parse_pdf">>,            \* .pdf
       <<<<46, 100, 111, 99, 120>>, "parse_docx">>,       \* .docx
       <<<<46, 120, 108, 115, 120>>, "parse_xlsx">>,      \* .xlsx
       <<<<46, 112, 112, 116, 120>>, "parse_pptx">>,      \* .pptx
       <<<<46, 104, 116, 109, 108>>, "parse_html">>,      \* .html
       <<<<46, 104, 116, 109>>, "parse_html">>,           \* .htm
       <<<<46, 116, 120, 116>>, "parse_text">>,           \* .txt
       <<<<46, 109, 100>>, "parse_text">>,                \* .md
       <<<<46, 99, 115, 118>>, "parse_text">>,            \* .csv
       <<<<46, 106, 115, 111, 110>>, "parse_text">>,      \* .json
       <<<<46, 120, 109, 108>>, "parse_text">>,           \* .xml
       <<<<46, 121, 97, 109, 108>>, "parse_text">>,       \* .yaml
       <<<<46, 121, 109, 108>>, "parse_text">>,           \* .yml
       <<<<46, 108, 111, 103>>, "parse_text">> >>         \* .log

\* PARSERS.keys(), in insertion order
PARSERS_keys == [i \in 1..Len(PARSERS) |-> PARSERS[i][1]]

\* ext in PARSERS
InPARSERS(e) == \E i \in 1..Len(PARSERS) : PARSERS[i][1] = e

\* PARSERS[ext]
PARSERS_get(e) == PARSERS[CHOOSE i \in 1..Len(PARSERS) : PARSERS[i][1] = e][2]

(* ------------------------------ strategies ----------------------------- *)
\* bytes.decode("utf-8", errors="replace") on payloads of ASCII bytes and of
\* bytes that start no valid sequence (each becomes U+FFFD)
decode(bytes) == [i \in 1..Len(bytes) |-> IF bytes[i] < 128 THEN bytes[i] ELSE 65533]

RECURSIVE universal_newlines(_)
\* text mode of open(): "\r\n" and "\r" are read as "\n"
universal_newlines(s) ==
    IF s = <<>> THEN <<>>
    ELSE IF s[1] = 13
         THEN IF Len(s) >= 2 /\ s[2] = 10
              THEN <<10>> \o universal_newlines(SubSeq(s, 3, Len(s)))
              ELSE <<10>> \o universal_newlines(Tail(s))
         ELSE <<s[1]>> \o universal_newlines(Tail(s))

\* text.count("\n")
count_newlines(s) == Cardinality({i \in 1..Len(s) : s[i] = 10})

\* parse_text(file_path), on the bytes the file holds
parse_text(data) ==
    LET text == universal_newlines(decode(data))
    IN [format |-> "text",
        full_text |-> text,
        lines |-> count_newlines(text) + 1,
        characters |-> Len(text)]

RECURSIVE str_int(_)
\* str(n) for an integer n >= 0
str_int(n) == IF n < 10 THEN <<48 + n>> ELSE str_int(n \div 10) \o <<48 + (n % 10)>>

\* parse_pdf(file_path), on the document fitz opens: doc.pages are the texts
\* page.get_text("text") returns, doc.metadata the (key, value) pairs
parse_pdf(doc) ==
    LET pages == [i \in 1..Len(doc.pages) |-> [page |-> i, text |-> strip(doc.pages[i])]]
    IN [format |-> "pdf",
        pages |-> Len(pages),
        metadata |-> SelectSeq(doc.metadata, LAMBDA kv : kv[2] # <<>>),
        content |-> pages,
        full_text |-> join(<<10, 10>>, NonEmpty([i \in 1..Len(pages) |-> pages[i].text]))]

\* parse_docx(file_path), on the document python-docx opens: doc.paragraphs
\* are the texts p.text, doc.tables the tables as rows of cell texts
parse_docx(doc) ==
    LET paragraphs == SelectSeq(doc.paragraphs, LAMBDA p : strip(p) # <<>>)
        tables == [t \in 1..Len(doc.tables) |->
                      [i \in 1..Len(doc.tables[t]) |->
                          [j \in 1..Len(doc.tables[t][i]) |-> strip(doc.tables[t][i][j])]]]
    IN [format |-> "docx",
        paragraphs |-> Len(paragraphs),
        tables |-> Len(tables),
        content |-> paragraphs,
        table_data |-> tables,
        full_text |-> join(<<10, 10>>, paragraphs)]

\* a cell value of openpyxl: None, a string, or an integer
NoneCell == [t |-> "none", v |-> <<>>]
StrCell(x) == [t |-> "str", v |-> x]
IntCell(n) == [t |-> "int", v |-> str_int(n)]

\* str(cell) if cell is not None else ""
str_cell(cell) == IF cell.t = "none" THEN <<>> ELSE cell.v

\* line 92: the cells of every row as strings
str_rows(rows) ==
    [i \in 1..Len(rows) |-> [j \in 1..Len(rows[i]) |-> str_cell(rows[i][j])]]

\* kept_rows with a test of the cells that does not trim them
kept_rows_untrimmed(rows) ==
    SelectSeq(str_rows(rows), LAMBDA row : \E j \in 1..Len(row) : row[j] # <<>>)

\* lines 90-94: the rows that are appended, those with a cell that is not
\* empty after strip()
kept_rows(rows) ==
    SelectSeq(str_rows(rows), LAMBDA row : \E j \in 1..Len(row) : strip(row[j]) # <<>>)

\* parse_xlsx(file_path), on the workbook openpyxl opens: the sheets in the
\* order of wb.sheetnames, each with the rows of ws.iter_rows(values_only=True)
parse_xlsx(doc) ==
    LET sheets == [k \in 1..Len(doc.sheets) |->
                      [name |-> doc.sheets[k].name, rows |-> kept_rows(doc.sheets[k].rows)]]
        sheet_text(sh) ==
            <<91>> \o sh.name \o <<93, 10>>
                \o join(<<10>>, [i \in 1..Len(sh.rows) |-> join(<<9>>, sh.rows[i])])
    IN [format |-> "xlsx",
        sheets |-> [k \in 1..Len(sheets) |-> sheets[k].name],
        sheet_count |-> Len(sheets),
        data |-> sheets,
        full_text |-> join(<<10>>, [k \in 1..Len(sheets) |-> sheet_text(sheets[k])])]

RECURSIVE flatten(_)
\* the concatenation of a list of lists
flatten(lists) == IF lists = <<>> THEN <<>> ELSE lists[1] \o flatten(Tail(lists))

\* parse_pptx(file_path), on the presentation python-pptx opens: the slides,
\* each a list of shapes with has_text_frame and the paragraph texts
parse_pptx(doc) ==
    LET shape_texts(shape) ==
            IF shape.has_text_frame
            THEN NonEmpty([i \in 1..Len(shape.paragraphs) |-> strip(shape.paragraphs[i])])
            ELSE <<>>
        slides == [i \in 1..Len(doc.slides) |->
                      [slide |-> i,
                       text |-> flatten([k \in 1..Len(doc.slides[i]) |->
                                            shape_texts(doc.slides[i][k])])]]
        \* "--- Slide {n} ---\n" + "\n".join(text)
        slide_text(sl) ==
            <<45, 45, 45, 32, 83, 108, 105, 100, 101, 32>> \o str_int(sl.slide)
                \o <<32, 45, 45, 45, 10>> \o join(<<10>>, sl.text)
        with_text == SelectSeq(slides, LAMBDA sl : sl.text # <<>>)
    IN [format |-> "pptx",
        slides |-> Len(slides),
        content |-> slides,
        full_text |-> join(<<10, 10>>, [i \in 1..Len(with_text) |-> slide_text(with_text[i])])]

\* a JSON value that is a string or null
StringValue(x) == [null |-> FALSE, s |-> x]
NullValue == [null |-> TRUE, s |-> <<>>]

\* a string of the tree BeautifulSoup builds: shown is whether get_text()
\* yields it, as it does a NavigableString or CData and does not a Comment
\* or the TemplateString of a template element
StringNode(s, shown) == [tag |-> FALSE, s |-> s, shown |-> shown]

\* an element of the tree, with its children
ElementNode(children) == [tag |-> TRUE, children |-> children]

RECURSIVE tag_string(_)
\* Tag.string of an element with these children: the child when it is the
\* only one and a string, of whatever type; the .string of the child when
\* it is the only one and an element; None otherwise
tag_string(children) ==
    IF Len(children) # 1 THEN NullValue
    ELSE IF ~children[1].tag THEN StringValue(children[1].s)
    ELSE tag_string(children[1].children)

RECURSIVE tag_strings(_)
\* the strings get_text() yields under an element with these children, in
\* document order
tag_strings(children) ==
    IF children = <<>> THEN <<>>
    ELSE (IF children[1].tag THEN tag_strings(children[1].children)
          ELSE IF children[1].shown THEN <<children[1].s>> ELSE <<>>)
         \o tag_strings(Tail(children))

\* parse_html(file_path), on the tree BeautifulSoup builds: doc.leading are
\* the strings before the first title element, doc.title_children the
\* children of that element (doc.has_title says whether there is one), and
\* doc.nodes the strings after it, each inside or outside a script or style
\* element; line 150 takes soup.title.string and line 151 soup.get_text(),
\* which are two readings of the tree
parse_html(doc) ==
    LET title == IF doc.has_title THEN tag_string(doc.title_children)
                 ELSE StringValue(<<>>)
        visible == SelectSeq(doc.nodes, LAMBDA n : ~n.in_script_or_style)
        strings == doc.leading \o tag_strings(doc.title_children)
                       \o [i \in 1..Len(visible) |-> visible[i].s]
    IN [format |-> "html",
        title |-> title,
        full_text |-> join(<<10>>, NonEmpty([i \in 1..Len(strings) |-> strip(strings[i])]))]

\* the library knows no document
NoDoc == [kind |-> "none"]

\* what the format library makes of a payload: lib.error is the str(e) of
\* the exception it raises on it (NoException when it opens it) and lib.doc
\* the document it opens
Library(payload, error, doc) == [payload |-> payload, error |-> error, doc |-> doc]

\* no exception: the value of e of line 236 when nothing was raised
NoException == Message("")

\* str(e) of the exception the PDF library raises on a truncated payload
TruncatedMessage == Message("bad file")

\* the tree BeautifulSoup builds from bytes that hold no markup
PlainTextSoup(data) ==
    [has_title |-> FALSE, leading |-> <<>>, title_children |-> <<>>,
     nodes |-> <<[in_script_or_style |-> FALSE, s |-> universal_newlines(decode(data))]>>]

\* the kind of document the library of a strategy opens
DocKind(parser) ==
    CASE parser = "parse_pdf" -> "pdf"
      [] parser = "parse_docx" -> "docx"
      [] parser = "parse_xlsx" -> "xlsx"
      [] parser = "parse_pptx" -> "pptx"
      [] parser = "parse_html" -> "html"
      [] parser = "parse_text" -> "text"

\* str(e) of the exception the strategy raises on the file at path p that
\* holds data, or NoException: the strategies that read the file as text
\* with errors="replace" raise none; the others open the payload when it is
\* a document of their format, and else raise what their library raises on
\* a file it cannot read: python-docx and python-pptx name the path of the
\* file, zipfile (for openpyxl) does not, and the PDF library raises the
\* message lib.error on the payload
LibraryError(parser, data, lib, p) ==
    IF parser \in {"parse_text", "parse_html"} THEN NoException
    ELSE IF data = lib.payload /\ lib.doc.kind = DocKind(parser) THEN lib.error
    ELSE CASE parser \in {"parse_docx", "parse_pptx"} ->
                 [text |-> "Package not found at ", path |-> p]
           [] parser = "parse_xlsx" -> Message("File is not a zip file")
           [] parser = "parse_pdf" ->
                 IF data = lib.payload /\ lib.doc.kind = "none" THEN lib.error
                 ELSE TruncatedMessage

\* the result of a strategy that returns, from the bytes of the file
StrategyResult(parser, data, lib) ==
    CASE parser = "parse_text" -> parse_text(data)
      [] parser = "parse_pdf" -> parse_pdf(lib.doc)
      [] parser = "parse_docx" -> parse_docx(lib.doc)
      [] parser = "parse_xlsx" -> parse_xlsx(lib.doc)
      [] parser = "parse_pptx" -> parse_pptx(lib.doc)
      [] parser = "parse_html" ->
            parse_html(IF data = lib.payload /\ lib.doc.kind = "html"
                       THEN lib.doc
                       ELSE PlainTextSoup(data))

\* str(e) of the exception of a strategy opening a missing file at path p:
\* the FileNotFoundError of open() and of zipfile ends with the path in
\* quotes, and so do the exceptions of the other libraries
NoSuchFile(parser, p) ==
    [text |-> CASE parser \in {"parse_text", "parse_html", "parse_xlsx"} ->
                     "[Errno 2] No such file or directory: "
                [] parser = "parse_pdf" -> "no such file: "
                [] parser \in {"parse_docx", "parse_pptx"} -> "Package not found at ",
     path |-> p]

(* ------------------------------ responses ------------------------------ *)
NoOutcome == [status |-> 0, kind |-> "none"]

\* the request was dropped by its caller: no response is sent
Abandoned == [status |-> 0, kind |-> "abandoned"]

\* JSONResponse(result), and the dict a handler returns
JSONResponse(body) == [status |-> 200, kind |-> "json", body |-> body]

\* HTTPException(status_code, detail)
HTTPException(code, detail) == [status |-> code, kind |-> "http_exception", detail |-> detail]

\* an exception that leaves the handler: the server answers a plain 500
ServerError(exc) == [status |-> 500, kind |-> "server_error", exc |-> exc]

\* UnsupportedDetail with the keys in the order of the dict
UnsupportedDetail_unsorted(e) ==
    <<"Unsupported format: ", e, ". Supported: ", join(<<44, 32>>, PARSERS_keys)>>

\* the detail of line 215
UnsupportedDetail(e) ==
    <<"Unsupported format: ", e, ". Supported: ", join(<<44, 32>>, sorted(PARSERS_keys))>>

\* FailedDetail without the message of the exception
FailedDetail_no_message(name, msg) == <<"Failed to parse ", name>>

\* the detail of line 238
FailedDetail(name, msg) == <<"Failed to parse ", name, ": ", msg>>

\* the body of GET /formats
FormatsBody == [formats |-> sorted(PARSERS_keys)]

\* the body of GET /health
HealthBody == [status |-> "ok", service |-> "docutils"]

(* ------------------------------ state ---------------------------------- *)
VARIABLES
    pc,         \* pc[r]: the position of request r in its handler
    upload,     \* upload[r]: what the caller of request r sent
    local,      \* local[r]: the local variables of parse_document
    pending,    \* pending[r]: the return value or exception the finally clause holds back
    outcome,    \* outcome[r]: the response of request r
    fs,         \* fs[p]: the file at path p of the temporary directory
    loop,       \* the request whose handler runs on the event loop thread
    invoked,    \* invoked[r]: calls of a strategy made for request r
    unlinked,   \* unlinked[r]: calls of os.unlink made for request r
    library,    \* what the format library makes of the payload of the uploads
    clock       \* time.time(), in ticks of TickMicros microseconds

vars == <<pc, upload, local, pending, outcome, fs, loop, invoked, unlinked, library, clock>>

NoUpload == [kind |-> "none", filename |-> <<>>, content |-> <<>>, pages |-> <<>>]

ParseUpload(name, bytes, pgs) ==
    [kind |-> "parse", filename |-> name, content |-> bytes, pages |-> pgs]

\* the requests callers send
Uploads ==
    { ParseUpload(a_pdf, two_bytes, no_pages),
      ParseUpload(a_pdf, two_bytes, some_pages),
      ParseUpload(n_md, two_bytes, no_pages),
      ParseUpload(r_zz, two_bytes, no_pages),
      ParseUpload(no_name, no_bytes, no_pages),
      [kind |-> "formats", filename |-> <<>>, content |-> <<>>, pages |-> <<>>],
      [kind |-> "health", filename |-> <<>>, content |-> <<>>, pages |-> <<>>] }

NoLocal ==
    [filename |-> <<>>, ext |-> <<>>, tmp |-> NoPath, tmp_path |-> NoPath,
     content |-> <<>>, start |-> 0, elapsed |-> 0, e |-> NoException]

\* a path without a file; owner is the request whose NamedTemporaryFile call
\* created the file a path holds, open whether that request still holds the
\* file object open
NoFile == [exists |-> FALSE, data |-> <<>>, owner |-> NoReq, open |-> FALSE]

\* the file NamedTemporaryFile(delete=False) creates for request r
NewFile(r) == [exists |-> TRUE, data |-> <<>>, owner |-> r, open |-> TRUE]

\* a PDF of two pages, the second without text, with a title and no author
SamplePdf ==
    [kind |-> "pdf",
     pages |-> << <<72, 105>>, <<32>> >>,
     metadata |-> << <<"title", <<84>>>>, <<"author", <<>>>> >>]

\* the payload two_bytes is a PDF its library rejects, or one it opens
SpecLibraries ==
    {Library(two_bytes, m, NoDoc) : m \in Messages}
    \cup {Library(two_bytes, NoException, SamplePdf)}

\* the length of a tick of the clock, in microseconds
TickMicros == 400

\* round(elapsed, 3) for an elapsed time of n ticks, in thousandths of a
\* second: the multiple of 1000 microseconds nearest to n * TickMicros
round3(n) == (n * TickMicros + 500) \div 1000

\* the fields lines 229-231 assign in the result of the strategy; an
\* assignment replaces a field of that name
merge(result, fields) ==
    [k \in DOMAIN result \cup DOMAIN fields |->
        IF k \in DOMAIN fields THEN fields[k] ELSE result[k]]

Init ==
    /\ pc = [r \in Reqs |-> "new"]
    /\ upload = [r \in Reqs |-> NoUpload]
    /\ local = [r \in Reqs |-> NoLocal]
    /\ pending = [r \in Reqs |-> NoOutcome]
    /\ outcome = [r \in Reqs |-> NoOutcome]
    /\ fs = [p \in Paths |-> NoFile]
    /\ loop = NoReq
    /\ invoked = [r \in Reqs |-> 0]
    /\ unlinked = [r \in Reqs |-> 0]
    /\ library \in SpecLibraries
    /\ clock = 0

(* ------------------------------ helpers -------------------------------- *)
\* mkstemp_names for a name built without looking at the directory
mkstemp_names_unchecked(files) == Paths

\* the names tempfile may return: mkstemp opens with O_CREAT | O_EXCL and
\* draws another name when the one it drew exists
mkstemp_names(files) == {p \in Paths : ~files[p].exists}

\* file.filename or "document"
filename_of(u) == IF u.filename = <<>> THEN DefaultName ELSE u.filename

\* os.path.splitext(filename)[1].lower()
ext_of(name) == lower(splitext_ext(name))

\* the strict prefixes of the payload a failed tmp.write can leave
StrictPrefixes(bytes) == {SubSeq(bytes, 1, n) : n \in 0..(Len(bytes) - 1)}

(* ------------------------------ requests ------------------------------- *)
\* a caller sends request r; requests are numbered in the order they arrive
Arrive(r) ==
    /\ pc[r] = "new"
    /\ \A q \in Reqs : q < r => pc[q] # "new"
    /\ \E u \in Uploads : upload' = [upload EXCEPT ![r] = u]
    /\ pc' = [pc EXCEPT ![r] = "queued"]
    /\ UNCHANGED <<local, pending, outcome, fs, loop, invoked, unlinked, library, clock>>

\* GET /health
health(r) ==
    /\ pc[r] = "queued"
    /\ upload[r].kind = "health"
    /\ loop = NoReq
    /\ outcome' = [outcome EXCEPT ![r] = JSONResponse(HealthBody)]
    /\ pc' = [pc EXCEPT ![r] = "done"]
    /\ UNCHANGED <<upload, local, pending, fs, loop, invoked, unlinked, library, clock>>

\* GET /formats
supported_formats(r) ==
    /\ pc[r] = "queued"
    /\ upload[r].kind = "formats"
    /\ loop = NoReq
    /\ outcome' = [outcome EXCEPT ![r] = JSONResponse(FormatsBody)]
    /\ pc' = [pc EXCEPT ![r] = "done"]
    /\ UNCHANGED <<upload, local, pending, fs, loop, invoked, unlinked, library, clock>>

\* parse_document_start with the temporary file created before the format
\* is resolved
parse_document_start_acquire_first(r) ==
    /\ pc[r] = "queued"
    /\ upload[r].kind = "parse"
    /\ loop = NoReq
    /\ LET filename == filename_of(upload[r])
           ext == ext_of(filename)
       IN /\ \E p \in mkstemp_names(fs) :
                /\ fs' = [fs EXCEPT ![p] = NewFile(r)]
                /\ local' = [local EXCEPT ![r].filename = filename, ![r].ext = ext,
                                          ![r].tmp = p]
          /\ IF ~InPARSERS(ext)
             THEN /\ outcome' = [outcome EXCEPT ![r] =
                                     HTTPException(400, UnsupportedDetail(ext))]
                  /\ pc' = [pc EXCEPT ![r] = "done"]
             ELSE /\ pc' = [pc EXCEPT ![r] = "reading"]
                  /\ UNCHANGED outcome
    /\ UNCHANGED <<upload, pending, loop, invoked, unlinked, library, clock>>

\* POST /parse, lines 209-220: resolve the format, reject it or create the
\* temporary file and suspend on the read of the upload
parse_document_start(r) ==
    /\ pc[r] = "queued"
    /\ upload[r].kind = "parse"
    /\ loop = NoReq
    /\ LET filename == filename_of(upload[r])
           ext == ext_of(filename)
       IN IF ~InPARSERS(ext)
          THEN /\ outcome' = [outcome EXCEPT ![r] = HTTPException(400, UnsupportedDetail(ext))]
               /\ local' = [local EXCEPT ![r].filename = filename, ![r].ext = ext]
               /\ pc' = [pc EXCEPT ![r] = "done"]
               /\ UNCHANGED fs
          ELSE /\ \E p \in mkstemp_names(fs) :
                    /\ fs' = [fs EXCEPT ![p] = NewFile(r)]
                    /\ local' = [local EXCEPT ![r].filename = filename, ![r].ext = ext,
                                              ![r].tmp = p]
               /\ pc' = [pc EXCEPT ![r] = "reading"]
               /\ UNCHANGED outcome
    /\ UNCHANGED <<upload, pending, loop, invoked, unlinked, library, clock>>

\* parse_document_read with the try block entered inside the with block:
\* the bytes are in the buffer of the file object, which is still open
parse_document_read_unflushed(r) ==
    /\ pc[r] = "reading"
    /\ loop = NoReq
    /\ local' = [local EXCEPT ![r].content = upload[r].content,
                              ![r].tmp_path = local[r].tmp]
    /\ pc' = [pc EXCEPT ![r] = "try"]
    /\ loop' = r
    /\ UNCHANGED <<upload, pending, outcome, fs, invoked, unlinked, library, clock>>

\* lines 220-224: the read returns, the bytes are written through the open
\* descriptor (to the file this request created, also when its name was
\* removed), the file is closed and the try block is entered; nothing
\* awaits from here on, so the handler keeps the event loop until it returns
parse_document_read(r) ==
    /\ pc[r] = "reading"
    /\ loop = NoReq
    /\ fs' = [fs EXCEPT ![local[r].tmp] =
                 IF @.owner = r
                 THEN [@ EXCEPT !.data = upload[r].content, !.open = FALSE]
                 ELSE @]
    /\ local' = [local EXCEPT ![r].content = upload[r].content,
                              ![r].tmp_path = local[r].tmp]
    /\ pc' = [pc EXCEPT ![r] = "try"]
    /\ loop' = r
    /\ UNCHANGED <<upload, pending, outcome, invoked, unlinked, library, clock>>

\* lines 219-222: file.read() raises, or the file system refuses the bytes;
\* tmp.write() keeps a payload that fits its buffer, as these do, so that
\* tmp_path is assigned and the flush of the close of the with statement
\* raises; the file stays (delete=False), closed, and the exception leaves
\* the handler
parse_document_materialize_fail(r) ==
    /\ pc[r] = "reading"
    /\ loop = NoReq
    /\ \/ /\ outcome' = [outcome EXCEPT ![r] = ServerError("read")]
          /\ fs' = [fs EXCEPT ![local[r].tmp] =
                       IF @.owner = r THEN [@ EXCEPT !.open = FALSE] ELSE @]
          /\ UNCHANGED local
       \/ /\ outcome' = [outcome EXCEPT ![r] = ServerError("write")]
          /\ \E part \in StrictPrefixes(upload[r].content) :
                fs' = [fs EXCEPT ![local[r].tmp] =
                          IF @.owner = r
                          THEN [@ EXCEPT !.data = part, !.open = FALSE]
                          ELSE @]
          /\ local' = [local EXCEPT ![r].content = upload[r].content,
                                    ![r].tmp_path = local[r].tmp]
    /\ pc' = [pc EXCEPT ![r] = "done"]
    /\ UNCHANGED <<upload, pending, loop, invoked, unlinked, library, clock>>

\* line 220: the caller disconnects and the handler task is cancelled
\* while it awaits file.read(); CancelledError leaves the with statement
parse_document_cancel(r) ==
    /\ pc[r] = "reading"
    /\ loop = NoReq
    /\ outcome' = [outcome EXCEPT ![r] = Abandoned]
    /\ fs' = [fs EXCEPT ![local[r].tmp] =
                 IF @.owner = r THEN [@ EXCEPT !.open = FALSE] ELSE @]
    /\ pc' = [pc EXCEPT ![r] = "cancelled"]
    /\ UNCHANGED <<upload, local, pending, loop, invoked, unlinked, library, clock>>

\* parse_document_extract with the timer left as it was when the request
\* was received
parse_document_extract_timer_not_started(r) ==
    /\ pc[r] = "try"
    /\ loop = r
    /\ invoked' = [invoked EXCEPT ![r] = @ + 1]
    /\ pc' = [pc EXCEPT ![r] = "parsing"]
    /\ UNCHANGED <<upload, local, pending, outcome, fs, loop, unlinked, library, clock>>

\* lines 225-226: the timer starts and the strategy is called, on the
\* event loop thread
parse_document_extract(r) ==
    /\ pc[r] = "try"
    /\ loop = r
    /\ local' = [local EXCEPT ![r].start = clock]
    /\ invoked' = [invoked EXCEPT ![r] = @ + 1]
    /\ pc' = [pc EXCEPT ![r] = "parsing"]
    /\ UNCHANGED <<upload, pending, outcome, fs, loop, unlinked, library, clock>>

\* lines 226-235: the strategy returns; the coordinator fields are merged
\* into its result and the response waits for the finally clause
strategy_return(r) ==
    /\ pc[r] = "parsing"
    /\ loop = r
    /\ fs[local[r].tmp_path].exists
    /\ LET parser == PARSERS_get(local[r].ext)
           data == fs[local[r].tmp_path].data
           elapsed == clock - local[r].start
       IN /\ LibraryError(parser, data, library, local[r].tmp_path) = NoException
          /\ local' = [local EXCEPT ![r].elapsed = elapsed]
          /\ pending' = [pending EXCEPT ![r] =
                JSONResponse(merge(StrategyResult(parser, data, library),
                                   [filename |-> local[r].filename,
                                    file_size |-> Len(local[r].content),
                                    processing_time |-> round3(elapsed)]))]
    /\ pc' = [pc EXCEPT ![r] = "finally"]
    /\ UNCHANGED <<upload, outcome, fs, loop, invoked, unlinked, library, clock>>

\* strategy_raise of a strategy that is handed the 'pages' field and raises
\* on a page range it cannot read
strategy_raise_on_pages(r) ==
    /\ pc[r] = "parsing"
    /\ loop = r
    /\ LET msg == IF ~fs[local[r].tmp_path].exists
                  THEN NoSuchFile(PARSERS_get(local[r].ext), local[r].tmp_path)
                  ELSE IF upload[r].pages = bad_pages THEN Message("invalid page range")
                  ELSE LibraryError(PARSERS_get(local[r].ext),
                                    fs[local[r].tmp_path].data, library,
                                    local[r].tmp_path)
       IN /\ msg # NoException
          /\ local' = [local EXCEPT ![r].e = msg]
          /\ pending' = [pending EXCEPT ![r] =
                          HTTPException(500, FailedDetail(local[r].filename, msg))]
    /\ pc' = [pc EXCEPT ![r] = "finally"]
    /\ UNCHANGED <<upload, outcome, fs, loop, invoked, unlinked, library, clock>>

\* lines 226, 236-238: the strategy raises; the except clause builds the
\* HTTP 500 error, which waits for the finally clause
strategy_raise(r) ==
    /\ pc[r] = "parsing"
    /\ loop = r
    /\ LET msg == IF fs[local[r].tmp_path].exists
                  THEN LibraryError(PARSERS_get(local[r].ext),
                                    fs[local[r].tmp_path].data, library,
                                    local[r].tmp_path)
                  ELSE NoSuchFile(PARSERS_get(local[r].ext), local[r].tmp_path)
       IN /\ msg # NoException
          /\ local' = [local EXCEPT ![r].e = msg]
          /\ pending' = [pending EXCEPT ![r] =
                          HTTPException(500, FailedDetail(local[r].filename, msg))]
    /\ pc' = [pc EXCEPT ![r] = "finally"]
    /\ UNCHANGED <<upload, outcome, fs, loop, invoked, unlinked, library, clock>>

\* parse_document_finally with os.unlink(tmp_path) as the last statement of
\* the try block instead of a finally clause
parse_document_finally_success_only(r) ==
    /\ pc[r] = "finally"
    /\ loop = r
    /\ IF pending[r].kind = "json"
       THEN /\ unlinked' = [unlinked EXCEPT ![r] = @ + 1]
            /\ IF fs[local[r].tmp_path].exists
               THEN /\ fs' = [fs EXCEPT ![local[r].tmp_path] = NoFile]
                    /\ outcome' = [outcome EXCEPT ![r] = pending[r]]
               ELSE /\ outcome' = [outcome EXCEPT ![r] = ServerError("FileNotFoundError")]
                    /\ UNCHANGED fs
       ELSE /\ outcome' = [outcome EXCEPT ![r] = pending[r]]
            /\ UNCHANGED <<fs, unlinked>>
    /\ pc' = [pc EXCEPT ![r] = "done"]
    /\ loop' = NoReq
    /\ UNCHANGED <<upload, local, pending, invoked, library, clock>>

\* lines 239-240: os.unlink(tmp_path); when the file is missing the
\* FileNotFoundError replaces the response the try statement held back
parse_document_finally(r) ==
    /\ pc[r] = "finally"
    /\ loop = r
    /\ unlinked' = [unlinked EXCEPT ![r] = @ + 1]
    /\ IF fs[local[r].tmp_path].exists
       THEN /\ fs' = [fs EXCEPT ![local[r].tmp_path] = NoFile]
            /\ outcome' = [outcome EXCEPT ![r] = pending[r]]
       ELSE /\ outcome' = [outcome EXCEPT ![r] = ServerError("FileNotFoundError")]
            /\ UNCHANGED fs
    /\ pc' = [pc EXCEPT ![r] = "done"]
    /\ loop' = NoReq
    /\ UNCHANGED <<upload, local, pending, invoked, library, clock>>

\* another process, or a cleaner of the temporary directory, removes a file
ExternalRemove(p) ==
    /\ fs[p].exists
    /\ fs' = [fs EXCEPT ![p] = NoFile]
    /\ UNCHANGED <<pc, upload, local, pending, outcome, loop, invoked, unlinked, library, clock>>

Next ==
    \/ \E r \in Reqs : Arrive(r)
    \/ \E r \in Reqs : health(r)
    \/ \E r \in Reqs : supported_formats(r)
    \/ \E r \in Reqs : parse_document_start(r)
    \/ \E r \in Reqs : parse_document_read(r)
    \/ \E r \in Reqs : parse_document_materialize_fail(r)
    \/ \E r \in Reqs : parse_document_cancel(r)
    \/ \E r \in Reqs : parse_document_extract(r)
    \/ \E r \in Reqs : strategy_return(r)
    \/ \E r \in Reqs : strategy_raise(r)
    \/ \E r \in Reqs : parse_document_finally(r)

\* the service and its callers
Spec == Init /\ [][Next]_vars

\* the steps of the handler of /parse for request r
Serve(r) ==
    \/ parse_document_start(r)
    \/ parse_document_read(r)
    \/ parse_document_materialize_fail(r)
    \/ parse_document_cancel(r)
    \/ parse_document_extract(r)
    \/ strategy_return(r)
    \/ strategy_raise(r)
    \/ parse_document_finally(r)

\* the service with request 1 received, the request u, and lib what the
\* format libraries make of payloads
InitWith(u, lib) ==
    /\ pc = [r \in Reqs |-> IF r = 1 THEN "queued" ELSE "new"]
    /\ upload = [r \in Reqs |-> IF r = 1 THEN u ELSE NoUpload]
    /\ local = [r \in Reqs |-> NoLocal]
    /\ pending = [r \in Reqs |-> NoOutcome]
    /\ outcome = [r \in Reqs |-> NoOutcome]
    /\ fs = [p \in Paths |-> NoFile]
    /\ loop = NoReq
    /\ invoked = [r \in Reqs |-> 0]
    /\ unlinked = [r \in Reqs |-> 0]
    /\ library = lib
    /\ clock = 0

\* the service with request 1 received, one of the requests U, and the
\* format libraries one of L
InitOne(U, L) == \E u \in U, lib \in L : InitWith(u, lib)

(* --------------------------- declared filenames ------------------------ *)
\* '.', '/', 'D' and 'm': the filenames over them include 'm.md', '.md',
\* 'm.MD', 'm/.md' and 'm.m/d'
NameAlphabet == {46, 47, 68, 109}

\* the strings over A of length at most n
StringsUpTo(A, n) == UNION {[1..k -> A] : k \in 0..n}

\* str.upper() on one code point
UpperChar(c) == IF c >= 97 /\ c <= 122 THEN c - 32 ELSE c

\* the upper/lower-case variants of e
CaseVariants(e) ==
    {[i \in 1..Len(e) |-> IF i \in U THEN UpperChar(e[i]) ELSE e[i]] :
        U \in SUBSET (1..Len(e))}

\* 'a' followed by a case variant of a registered extension
VariantNames ==
    UNION {{<<97>> \o v : v \in CaseVariants(PARSERS[i][1])} : i \in 1..Len(PARSERS)}

Names == StringsUpTo(NameAlphabet, MaxNameLen) \cup VariantNames

InitNames ==
    InitOne({ParseUpload(n, two_bytes, no_pages) : n \in Names}, SpecLibraries)

NextNames == Serve(1)

\* one /parse request with a declared filename out of Names
SpecNames == InitNames /\ [][NextNames]_vars

(* ------------------------------ documents ------------------------------ *)
\* the sequences over S of length at most n
SeqsUpTo(S, n) == UNION {[1..k -> S] : k \in 0..n}

\* '', ' ', 'H' and ' H\n'
Texts == {<<>>, <<32>>, <<72>>, <<32, 72, 10>>}

PdfDocs ==
    {[kind |-> "pdf", pages |-> p, metadata |-> m] :
        p \in SeqsUpTo(Texts, MaxItems),
        m \in {<<>>, << <<"title", <<84>>>>, <<"author", <<>>>> >>}}

\* the table [["x","y"],["","z"]]
ExampleTable == << <<<<120>>, <<121>>>>, <<<<>>, <<122>>>> >>

DocxDocs ==
    {[kind |-> "docx", paragraphs |-> p, tables |-> t] :
        p \in SeqsUpTo(Texts, MaxItems),
        t \in {<<>>, <<ExampleTable>>}
               \cup {<< <<row>> >> : row \in [1..2 -> {<<>>, <<32, 120>>}]}}

Cells == {NoneCell, StrCell(<<32>>), StrCell(<<97>>), IntCell(70)}

\* the rows [["a","b"],["",""],["c","d"]]
ExampleRows ==
    << <<StrCell(<<97>>), StrCell(<<98>>)>>,
       <<StrCell(<<>>), StrCell(<<>>)>>,
       <<StrCell(<<99>>), StrCell(<<100>>)>> >>

\* workbooks of one sheet 'S', and of two sheets 'S' and 'T'
XlsxDocs ==
    {[kind |-> "xlsx", sheets |-> <<[name |-> <<83>>, rows |-> rows]>>] :
        rows \in SeqsUpTo([1..2 -> Cells], MaxItems) \cup {ExampleRows}}
    \cup
    {[kind |-> "xlsx",
      sheets |-> <<[name |-> <<83>>, rows |-> r1], [name |-> <<84>>, rows |-> r2]>>] :
        r1, r2 \in {<<>>, <<<<NoneCell, StrCell(<<32>>)>>>>, <<<<IntCell(70), NoneCell>>>>}}

\* slides of one shape
PptxDocs ==
    {[kind |-> "pptx", slides |-> sl] :
        sl \in SeqsUpTo({<<[has_text_frame |-> h, paragraphs |-> p]>> :
                             h \in BOOLEAN, p \in SeqsUpTo(Texts, 1)}, MaxItems)}

\* the children a title element can have: the text 'T', white space, the
\* string 'T' of a comment or of a title inside a template element, and an
\* element that holds the text 'T'
TitleNodes ==
    {StringNode(<<84>>, TRUE), StringNode(<<32>>, TRUE), StringNode(<<84>>, FALSE),
     ElementNode(<<StringNode(<<84>>, TRUE)>>)}

\* the strings of the rest of a document
BodyNodes ==
    {[in_script_or_style |-> FALSE, s |-> <<72>>],
     [in_script_or_style |-> TRUE, s |-> <<115>>],
     [in_script_or_style |-> FALSE, s |-> <<32>>]}

\* trees with a first title element of up to two children, after nothing
\* or after the text 'L', and trees without a title element
HtmlDocs ==
    {[kind |-> "html", has_title |-> TRUE, leading |-> l, title_children |-> t,
      nodes |-> n] :
        l \in {<<>>, <<<<76>>>>},
        t \in SeqsUpTo(TitleNodes, 2),
        n \in SeqsUpTo(BodyNodes, MaxItems)}
    \cup
    {[kind |-> "html", has_title |-> FALSE, leading |-> <<>>, title_children |-> <<>>,
      nodes |-> n] :
        n \in SeqsUpTo(BodyNodes, MaxItems)}

Docs == PdfDocs \cup DocxDocs \cup XlsxDocs \cup PptxDocs \cup HtmlDocs

\* 'a' followed by the first extension registered for a kind of document
DocName(kind) ==
    <<97>> \o PARSERS[CHOOSE i \in 1..Len(PARSERS) :
                         /\ DocKind(PARSERS[i][2]) = kind
                         /\ \A j \in 1..(i - 1) : DocKind(PARSERS[j][2]) # kind][1]

\* request 1 uploads a document the library of its format opens, or a
\* file of a structured format whose library rejects it
InitDocs ==
    \/ \E d \in Docs :
          InitWith(ParseUpload(DocName(d.kind), two_bytes, no_pages),
                   Library(two_bytes, NoException, d))
    \/ InitOne({ParseUpload(DocName(k), two_bytes, no_pages) :
                    k \in {"pdf", "docx", "xlsx", "pptx"}},
               {Library(two_bytes, m, NoDoc) : m \in Messages})

NextDocs == Serve(1)

\* one /parse request with a document of a structured format
SpecDocs == InitDocs /\ [][NextDocs]_vars

(* ------------------------------ plain text ----------------------------- *)
\* 'H', line feed, carriage return and a byte that starts no UTF-8 sequence
TextBytes == {72, 10, 13, 255}

\* 'a' followed by an extension of the plain-text family
TextNames ==
    {<<97>> \o PARSERS[i][1] : i \in {k \in 1..Len(PARSERS) : PARSERS[k][2] = "parse_text"}}

InitText ==
    InitOne({ParseUpload(n, b, no_pages) :
                n \in TextNames, b \in SeqsUpTo(TextBytes, MaxTextLen)},
            SpecLibraries)

\* the steps of the handler on a file that stays in place: parse_text
\* raises on no content
NextText ==
    \/ parse_document_start(1)
    \/ parse_document_read(1)
    \/ parse_document_materialize_fail(1)
    \/ parse_document_cancel(1)
    \/ parse_document_extract(1)
    \/ strategy_return(1)
    \/ parse_document_finally(1)

\* one /parse request with a plain-text upload
SpecText == InitText /\ [][NextText]_vars

\* time passes
Tick ==
    /\ clock < MaxClock
    /\ clock' = clock + 1
    /\ UNCHANGED <<pc, upload, local, pending, outcome, fs, loop, invoked, unlinked, library>>

\* the values of the 'pages' field: the default, two ranges, and no range
PagesValues == {no_pages, some_pages, one_page, bad_pages}

\* requests 1 and 2 are received with the same file and any 'pages'
InitPages ==
    \E n \in {a_pdf, n_md}, p1, p2 \in PagesValues :
        /\ pc = [r \in Reqs |-> IF r <= 2 THEN "queued" ELSE "new"]
        /\ upload = [r \in Reqs |->
                         IF r = 1 THEN ParseUpload(n, two_bytes, p1)
                         ELSE IF r = 2 THEN ParseUpload(n, two_bytes, p2)
                         ELSE NoUpload]
        /\ local = [r \in Reqs |-> NoLocal]
        /\ pending = [r \in Reqs |-> NoOutcome]
        /\ outcome = [r \in Reqs |-> NoOutcome]
        /\ fs = [p \in Paths |-> NoFile]
        /\ loop = NoReq
        /\ invoked = [r \in Reqs |-> 0]
        /\ unlinked = [r \in Reqs |-> 0]
        /\ library \in SpecLibraries
        /\ clock = 0

NextPages == \E r \in Reqs : Serve(r)

\* two /parse requests with the same file and any values of 'pages'
SpecPages == InitPages /\ [][NextPages]_vars

InitTimed ==
    InitOne({ParseUpload(a_pdf, two_bytes, no_pages),
             ParseUpload(n_md, two_bytes, no_pages),
             ParseUpload(n_md, no_bytes, no_pages)},
            SpecLibraries)

NextTimed == Serve(1) \/ Tick

\* one /parse request while time passes
SpecTimed == InitTimed /\ [][NextTimed]_vars

NextEnv == Next \/ \E p \in Paths : ExternalRemove(p)

\* the service, its callers and other processes that remove temporary files
SpecEnv == Init /\ [][NextEnv]_vars

(* ------------------------------ properties ----------------------------- *)
\* request r is a /parse request with a declared filename whose lowercased
\* extension is no key of the registry
Unsupported(r) ==
    /\ upload[r].kind = "parse"
    /\ LET e == lower(splitext_ext(filename_of(upload[r])))
       IN \A i \in 1..Len(PARSERS) : PARSERS[i][1] # e

\* the temporary file created for request r is on disk
HasFile(r) == \E p \in Paths : fs[p].exists /\ fs[p].owner = r

\* request r has ended: a response was sent or the request was abandoned
Terminated(r) == pc[r] \in {"done", "cancelled"}

\* C1: a /parse request with an unsupported extension (a missing filename
\* included) never has a temporary file or a temporary path, no strategy is
\* called for it, its handler leaves the file system as it was, and it ends
\* with the HTTP 400 error.
C1_UnsupportedTouchesNothing ==
    /\ [](\A r \in Reqs : Unsupported(r) =>
            /\ local[r].tmp = NoPath
            /\ local[r].tmp_path = NoPath
            /\ ~HasFile(r)
            /\ invoked[r] = 0
            /\ unlinked[r] = 0
            /\ pc[r] \in {"queued", "done"}
            /\ pc[r] = "done" =>
                  outcome[r].kind = "http_exception" /\ outcome[r].status = 400)
    /\ [][\A r \in Reqs : pc'[r] # pc[r] /\ Unsupported(r) => fs' = fs]_vars

\* C1 witness: a request without a filename and one with an unregistered
\* extension were both rejected
C1_Witness ==
    \E r, q \in Reqs :
        /\ Unsupported(r) /\ upload[r].filename = no_name /\ pc[r] = "done"
        /\ Unsupported(q) /\ upload[q].filename = r_zz /\ pc[q] = "done"

\* the strategy called for request r raised
StrategyRaised(r) == local[r].e # NoException

\* C2: when a request whose strategy raised has terminated, the temporary
\* file created for it is not on disk.
C2_ReleasedAfterFailedExtract ==
    \A r \in Reqs : StrategyRaised(r) /\ Terminated(r) => ~HasFile(r)

\* C2 witness: a request whose strategy raised has terminated, after one
\* call of os.unlink
C2_Witness ==
    \E r \in Reqs :
        StrategyRaised(r) /\ pc[r] = "done" /\ invoked[r] = 1 /\ unlinked[r] = 1

\* C3: no terminated request leaves the temporary file it created on disk,
\* whatever failed (the read of the upload and the write included).
C3_ReleasedOnAnyError ==
    \A r \in Reqs : pc[r] = "done" => ~HasFile(r)

\* C4: no abandoned request leaves the temporary file it created on disk.
C4_ReleasedWhenAbandoned ==
    \A r \in Reqs : pc[r] = "cancelled" => ~HasFile(r)

\* request r is between the creation of its temporary file and its end
InFlight(r) == pc[r] \in {"reading", "try", "parsing", "finally"}

\* C5: two requests in flight never hold the same temporary path, and the
\* file of a request in flight is removed by the release of that request
\* only.
C5_PathUniquePerAcquisition ==
    /\ [](\A r, q \in Reqs :
            r # q /\ InFlight(r) /\ InFlight(q) => local[r].tmp # local[q].tmp)
    /\ [][\A q \in Reqs :
            InFlight(q) /\ HasFile(q) /\ ~HasFile(q)' =>
                pc[q] = "finally" /\ pc'[q] = "done"]_vars

\* C5 witness: of two requests with the same filename and the same bytes,
\* one has released its file while the other still holds its own
C5_Witness ==
    \E r, q \in Reqs :
        /\ r # q
        /\ upload[r] = upload[q]
        /\ upload[r].kind = "parse"
        /\ pc[r] = "done" /\ unlinked[r] = 1
        /\ InFlight(q) /\ HasFile(q)

\* C6: for every terminated request that acquired a temporary file,
\* os.unlink was called exactly once.
C6_DeletedExactlyOnce ==
    \A r \in Reqs : Terminated(r) /\ local[r].tmp # NoPath => unlinked[r] = 1

\* C7: a release that finds the file already removed does not raise: the
\* request answers what the Extract step decided.
C7_ReleaseNeverRaises ==
    \A r \in Reqs :
        pc[r] = "done" /\ unlinked[r] = 1 =>
            outcome[r].kind = pending[r].kind /\ outcome[r] = pending[r]

\* a step of the handler of request q
HandlerStep(q) ==
    \/ health(q)
    \/ supported_formats(q)
    \/ parse_document_start(q)
    \/ parse_document_read(q)
    \/ parse_document_materialize_fail(q)
    \/ parse_document_cancel(q)

\* C8: while the strategy of one request runs, every other request that
\* waits for the service or for its upload can take its next step.
C8_ExtractDoesNotStallOthers ==
    \A r, q \in Reqs :
        r # q /\ pc[r] = "parsing" /\ pc[q] \in {"queued", "reading"} =>
            ENABLED HandlerStep(q)

\* C9: a request whose strategy raised called the strategy once, holds no
\* success document, and ends with the HTTP 500 error whose detail carries
\* the declared filename and the message of the exception.
C9_FailureMappedOnce ==
    \A r \in Reqs :
        StrategyRaised(r) =>
            /\ invoked[r] = 1
            /\ pending[r].kind # "json"
            /\ pc[r] \in {"finally", "done"}
            /\ pc[r] = "done" =>
                  /\ outcome[r].kind = "http_exception"
                  /\ outcome[r].status = 500
                  /\ outcome[r].detail =
                        <<"Failed to parse ", filename_of(upload[r]), ": ", local[r].e>>

\* C9 witness: a request whose strategy raised has answered
C9_Witness ==
    \E r \in Reqs :
        /\ StrategyRaised(r)
        /\ pc[r] = "done"
        /\ outcome[r].status = 500
        /\ upload[r].filename = a_pdf

\* the registered extensions in ascending order: .csv .docx .htm .html
\* .json .log .md .pdf .pptx .txt .xlsx .xml .yaml .yml
AscendingExtensions ==
    << <<46, 99, 115, 118>>, <<46, 100, 111, 99, 120>>, <<46, 104, 116, 109>>,
       <<46, 104, 116, 109, 108>>, <<46, 106, 115, 111, 110>>, <<46, 108, 111, 103>>,
       <<46, 109, 100>>, <<46, 112, 100, 102>>, <<46, 112, 112, 116, 120>>,
       <<46, 116, 120, 116>>, <<46, 120, 108, 115, 120>>, <<46, 120, 109, 108>>,
       <<46, 121, 97, 109, 108>>, <<46, 121, 109, 108>> >>

\* C10: a rejected request answers HTTP 400 with the detail 'Unsupported
\* format: <ext>. Supported: <list>', where <list> is every registered
\* extension in ascending order, the list GET /formats returns.
C10_UnsupportedListsFormats ==
    /\ Len(AscendingExtensions) = Len(PARSERS)
    /\ {AscendingExtensions[i] : i \in 1..Len(AscendingExtensions)}
          = {PARSERS[i][1] : i \in 1..Len(PARSERS)}
    /\ \A g \in Reqs :
          upload[g].kind = "formats" /\ pc[g] = "done" =>
              outcome[g].status = 200 /\ outcome[g].body.formats = AscendingExtensions
    /\ \A r \in Reqs :
          Unsupported(r) /\ pc[r] = "done" =>
              /\ outcome[r].status = 400
              /\ outcome[r].detail =
                    <<"Unsupported format: ",
                      lower(splitext_ext(filename_of(upload[r]))),
                      ". Supported: ",
                      join(<<44, 32>>, AscendingExtensions)>>
              /\ \A g \in Reqs :
                    upload[g].kind = "formats" /\ pc[g] = "done" =>
                        outcome[r].detail[4] = join(<<44, 32>>, outcome[g].body.formats)

\* C10 witness: a rejected request and a GET /formats request have answered
C10_Witness ==
    \E r, g \in Reqs :
        /\ Unsupported(r) /\ pc[r] = "done" /\ outcome[r].status = 400
        /\ upload[g].kind = "formats" /\ pc[g] = "done"

(* --------------------------- format resolution ------------------------- *)
\* the substring after the final '.' of a name, dotted when there is a '.'
after_final_dot(name) ==
    LET d == rfind(name, 46)
    IN [dotted |-> d # -1,
        tail |-> IF d = -1 THEN <<>> ELSE SubSeq(name, d + 2, Len(name))]

\* the substrings after the final '.' of f and g are equal ignoring case
SameTail(f, g) ==
    LET x == after_final_dot(f)
        y == after_final_dot(g)
    IN x.dotted = y.dotted /\ lower(x.tail) = lower(y.tail)

\* lines 209-212 on a declared filename: the strategy /parse selects
Resolve(name) ==
    LET ext == ext_of(IF name = <<>> THEN DefaultName ELSE name)
    IN IF InPARSERS(ext) THEN PARSERS_get(ext) ELSE "unsupported"

\* /parse has rejected request r as unsupported
Rejected(r) == pc[r] = "done" /\ outcome[r].status = 400

\* /parse has rejected request r or has called a strategy for it
Decided(r) == Rejected(r) \/ (pc[r] = "parsing" /\ invoked[r] = 1)

\* the strategy called for request r, "unsupported" when it was rejected
Selected(r) == IF Rejected(r) THEN "unsupported" ELSE PARSERS_get(local[r].ext)

\* C11: the resolution of a declared filename depends only on the substring
\* after its final '.': whatever /parse decided for a request (the strategy
\* it called, or the rejection as unsupported) is what it decides for every
\* other filename whose substring after the final '.' is the same ignoring
\* case, names that start with a dot or hold path separators included.
C11_TailDecidesResolution ==
    Decided(1) =>
        \A g \in Names :
            SameTail(upload[1].filename, g) => Selected(1) = Resolve(g)

\* C12: resolution is case-insensitive and total on the supported set: a
\* request named 'a' + v, v an upper/lower-case variant of a registered
\* extension e, gets the strategy registered under e; and every request is
\* either rejected as unsupported without a strategy call, no registry key
\* matching, or gets one strategy call with exactly one registry key matching.
C12_CaseInsensitiveTotal ==
    Decided(1) =>
        /\ \A i \in 1..Len(PARSERS) :
              upload[1].filename \in {<<97>> \o v : v \in CaseVariants(PARSERS[i][1])}
                  => Selected(1) = PARSERS[i][2]
        /\ LET hits == {i \in 1..Len(PARSERS) : PARSERS[i][1] = local[1].ext}
           IN IF Rejected(1)
              THEN hits = {} /\ invoked[1] = 0
              ELSE Cardinality(hits) = 1 /\ invoked[1] = 1

\* 'a.PDF' was resolved to the PDF strategy, which was called
C12_Witness ==
    /\ upload[1].filename = <<97, 46, 80, 68, 70>>
    /\ pc[1] = "parsing"
    /\ invoked[1] = 1
    /\ Selected(1) = "parse_pdf"

(* --------------------------- extracted documents ----------------------- *)
\* /parse has answered request r with the result of a strategy
Succeeded(r) == upload[r].kind = "parse" /\ pc[r] = "done" /\ outcome[r].kind = "json"

\* s holds a character that is not whitespace
HasText(s) == \E i \in 1..Len(s) : ~IsSpace(s[i])

\* the cells of a list of rows
CellsOf(rows) == UNION {{rows[i][j] : j \in 1..Len(rows[i])} : i \in 1..Len(rows)}

\* the texts of the structured content of a result: page texts,
\* paragraphs and table cells, cells, slide text lines, the title
StructuredTexts(body) ==
    CASE body.format = "pdf" -> {body.content[i].text : i \in 1..Len(body.content)}
      [] body.format = "docx" ->
            {body.content[i] : i \in 1..Len(body.content)}
                \cup UNION {CellsOf(body.table_data[t]) : t \in 1..Len(body.table_data)}
      [] body.format = "xlsx" ->
            UNION {CellsOf(body.data[k].rows) : k \in 1..Len(body.data)}
      [] body.format = "pptx" ->
            UNION {{body.content[i].text[k] : k \in 1..Len(body.content[i].text)} :
                      i \in 1..Len(body.content)}
      [] body.format = "html" -> IF body.title.null THEN {} ELSE {body.title.s}
      [] body.format = "text" -> {}

\* C13: whenever the structured content of a successful result holds
\* non-whitespace text (a PDF page text, a DOCX paragraph or table cell, an
\* XLSX cell, a PPTX slide text line, an HTML title), full_text is not the
\* empty string.
C13_FullTextNonEmpty ==
    Succeeded(1) =>
        ((\E s \in StructuredTexts(outcome[1].body) : HasText(s))
            => outcome[1].body.full_text # <<>>)

\* an HTML result has a title with text and an empty full_text
C13_TitleOutsideFullText ==
    /\ Succeeded(1)
    /\ outcome[1].body.format = "html"
    /\ ~outcome[1].body.title.null
    /\ HasText(outcome[1].body.title.s)
    /\ outcome[1].body.full_text = <<>>

(* ------------------------------ plain text ----------------------------- *)
\* C14: the result of a plain-text upload has format "text", a full_text
\* that is the decoded uploaded bytes verbatim, carriage returns included,
\* lines equal to the number of newline characters of the decoded content
\* plus 1, and characters equal to the length of the decoded content.
C14_TextVerbatim ==
    Succeeded(1) /\ upload[1].filename \in TextNames =>
        LET text == decode(upload[1].content)
            body == outcome[1].body
        IN /\ body.format = "text"
           /\ body.full_text = text
           /\ body.lines = Cardinality({i \in 1..Len(text) : text[i] = 10}) + 1
           /\ body.characters = Len(text)

(* ------------------------------ the response --------------------------- *)
\* the fields the coordinator adds to the result of a strategy
CoordinatorFields == {"filename", "file_size", "processing_time"}

\* the temporary file of request r holds the uploaded bytes and is closed
Materialized(r) ==
    LET f == fs[local[r].tmp_path]
    IN f.exists /\ f.owner = r /\ ~f.open /\ f.data = upload[r].content

\* C15: a successful response holds every field of the result of the
\* strategy unchanged, plus the declared filename, file_size equal to the
\* number of uploaded bytes, and processing_time, the rounded time between
\* the call of the strategy, made when the temporary file is completely
\* written and closed, and its return, which is before the file is released.
C15_ResponseFields ==
    /\ [](Succeeded(1) =>
            LET body == outcome[1].body
                result == StrategyResult(PARSERS_get(local[1].ext),
                                         upload[1].content, library)
            IN /\ DOMAIN body = DOMAIN result \cup CoordinatorFields
               /\ \A k \in DOMAIN result : body[k] = result[k]
               /\ body.filename = upload[1].filename
               /\ body.file_size = Len(upload[1].content)
               /\ body.processing_time = round3(local[1].elapsed))
    /\ [][/\ (pc[1] = "try" /\ pc'[1] = "parsing") =>
                (local'[1].start = clock /\ Materialized(1))
          /\ (pc[1] = "parsing" /\ pc'[1] = "finally" /\ pending'[1].kind = "json") =>
                /\ local'[1].elapsed = clock - local[1].start
                /\ unlinked[1] = 0
                /\ Materialized(1)]_vars

\* a response whose processing_time is the 0.8 ms the strategy took, sent
\* 1.2 ms after the request was received
C15_Witness ==
    /\ Succeeded(1)
    /\ local[1].start = 1
    /\ local[1].elapsed = 2
    /\ clock = 3
    /\ outcome[1].body.processing_time = 1
    /\ outcome[1].body.file_size = 2

(* ------------------------------ statelessness -------------------------- *)
\* the result a service that has served no request returns for upload u,
\* processing_time excluded
FreshResult(u) ==
    merge(StrategyResult(PARSERS_get(ext_of(filename_of(u))), u.content, library),
          [filename |-> filename_of(u), file_size |-> Len(u.content)])

\* the fields of a response body, processing_time excluded
Untimed(body) == [k \in DOMAIN body \ {"processing_time"} |-> body[k]]

\* C16: extraction is stateless across requests: whatever requests came
\* before or run at the same time, a successful response is, processing_time
\* excluded, the one a fresh service gives for the same filename and bytes,
\* so two successful requests with the same filename and bytes get the same
\* format, structured content and full_text; and the file a strategy reads
\* is the one its own request created and wrote.
C16_StatelessExtraction ==
    /\ \A r \in Reqs : Succeeded(r) => Untimed(outcome[r].body) = FreshResult(upload[r])
    /\ \A r, q \in Reqs :
          (/\ Succeeded(r) /\ Succeeded(q)
           /\ upload[r].filename = upload[q].filename
           /\ upload[r].content = upload[q].content)
              => Untimed(outcome[r].body) = Untimed(outcome[q].body)
    /\ \A r \in Reqs :
          pc[r] = "parsing" =>
              /\ fs[local[r].tmp_path].owner = r
              /\ fs[local[r].tmp_path].data = upload[r].content

\* the same file was extracted twice, with success
C16_Witness ==
    /\ Succeeded(1)
    /\ Succeeded(2)
    /\ upload[1].filename = n_md
    /\ upload[2].filename = n_md
    /\ upload[1].content = upload[2].content
    /\ unlinked[1] = 1

(* ------------------------------ spreadsheets --------------------------- *)
\* the n-th smallest element of a set I of numbers
Nth(I, n) == CHOOSE i \in I : Cardinality({j \in I : j <= i}) = n

\* the rows of a result are the rows of a sheet that have a cell whose
\* string form is not empty after trimming, in their order, cell by cell
\* in string form
RetainedRows(result_rows, sheet_rows) ==
    LET I == {i \in 1..Len(sheet_rows) :
                 \E j \in 1..Len(sheet_rows[i]) : HasText(str_cell(sheet_rows[i][j]))}
    IN /\ Len(result_rows) = Cardinality(I)
       /\ \A n \in 1..Len(result_rows) :
             LET row == sheet_rows[Nth(I, n)]
             IN /\ Len(result_rows[n]) = Len(row)
                /\ \A j \in 1..Len(row) :
                      result_rows[n][j] = IF row[j] = NoneCell THEN <<>> ELSE row[j].v

RECURSIVE Joined(_, _)
\* the strings of a list, with sep between one and the next
Joined(sep, list) ==
    IF Len(list) = 0 THEN <<>>
    ELSE IF Len(list) = 1 THEN list[1]
    ELSE list[1] \o sep \o Joined(sep, Tail(list))

\* C17: the result of an XLSX extraction lists every sheet of the workbook
\* in workbook order, a sheet without retained rows included; the rows of
\* a sheet are exactly its rows with at least one cell whose string form
\* is non-empty after trimming, in their order, every cell in string form
\* and an absent cell as the empty string; full_text is, per sheet, the
\* line '[<sheet name>]' followed by the retained rows with cells joined
\* by a tab, the sheets joined by a newline.
C17_XlsxRules ==
    Succeeded(1) /\ outcome[1].body.format = "xlsx" =>
        LET body == outcome[1].body
            wb == library.doc.sheets
        IN /\ body.sheets = [k \in 1..Len(wb) |-> wb[k].name]
           /\ body.sheet_count = Len(wb)
           /\ Len(body.data) = Len(wb)
           /\ \A k \in 1..Len(wb) :
                 /\ body.data[k].name = wb[k].name
                 /\ RetainedRows(body.data[k].rows, wb[k].rows)
           /\ body.full_text =
                 Joined(<<10>>,
                        [k \in 1..Len(wb) |->
                            <<91>> \o wb[k].name \o <<93, 10>>
                                \o Joined(<<10>>,
                                       [i \in 1..Len(body.data[k].rows) |->
                                           Joined(<<9>>, body.data[k].rows[i])])])

\* the rows [["a","b"],["",""],["c","d"]] yielded ["a","b"] and ["c","d"]
C17_Witness ==
    /\ Succeeded(1)
    /\ outcome[1].body.format = "xlsx"
    /\ library.doc.sheets[1].rows = ExampleRows
    /\ outcome[1].body.data[1].rows = << <<<<97>>, <<98>>>>, <<<<99>>, <<100>>>> >>
    /\ outcome[1].body.full_text = <<91, 83, 93, 10, 97, 9, 98, 10, 99, 9, 100>>

(* ------------------------------ HTML titles ---------------------------- *)
\* C18: the title of an HTML result is always a string, never null: the
\* text of the title element when the document has one (the empty string
\* when that element has no text), and the empty string when it has none.
C18_TitleIsString ==
    Succeeded(1) /\ outcome[1].body.format = "html" =>
        /\ ~outcome[1].body.title.null
        /\ outcome[1].body.title.s =
              IF library.doc.has_title
              THEN flatten(tag_strings(library.doc.title_children))
              ELSE <<>>

(* ------------------------------ the temporary file --------------------- *)
\* C19: from the call of the strategy until the release, the temporary file
\* of the request holds exactly the uploaded bytes, all of them, and is
\* closed: the strategy never sees an empty or partially written file, and
\* the coordinator does not modify the file before it releases it.
C19_FileCompleteWhenParsed ==
    \A r \in Reqs : pc[r] \in {"parsing", "finally"} => Materialized(r)

\* a strategy runs on a closed file that holds the two uploaded bytes
C19_Witness ==
    /\ pc[1] = "parsing"
    /\ invoked[1] = 1
    /\ upload[1].content = two_bytes
    /\ fs[local[1].tmp_path].data = two_bytes
    /\ ~fs[local[1].tmp_path].open

(* ------------------------------ the 'pages' field ---------------------- *)
\* /parse has answered request r from its try block: with the result of a
\* strategy, or with the HTTP 500 error of its except clause
Answered(r) ==
    /\ upload[r].kind = "parse"
    /\ pc[r] = "done"
    /\ \/ outcome[r].kind = "json"
       \/ outcome[r].kind = "http_exception" /\ outcome[r].status = 500

\* C20: the 'pages' field is inert: two /parse requests with the same
\* filename and bytes that differ in 'pages' (the default, a range, or no
\* range at all) get the same status, and the same format, structured
\* content and full_text or the same error; a PDF result holds all pages
\* of the document; and a request fails only if the library rejects the
\* bytes, whatever 'pages' is.
C20_PagesInert ==
    /\ \A r, q \in Reqs :
          (/\ Answered(r) /\ Answered(q)
           /\ upload[r].filename = upload[q].filename
           /\ upload[r].content = upload[q].content
           /\ upload[r].pages # upload[q].pages)
              => /\ outcome[r].status = outcome[q].status
                 /\ outcome[r].kind = "json" =>
                        Untimed(outcome[r].body) = Untimed(outcome[q].body)
                 /\ outcome[r].kind = "http_exception" =>
                        outcome[r].detail = outcome[q].detail
    /\ \A r \in Reqs :
          Answered(r) =>
              /\ (outcome[r].kind = "json") =
                    (LibraryError(PARSERS_get(local[r].ext), upload[r].content, library,
                                  local[r].tmp_path)
                        = NoException)
              /\ (outcome[r].kind = "json" /\ outcome[r].body.format = "pdf") =>
                    /\ outcome[r].body.pages = Len(library.doc.pages)
                    /\ Len(outcome[r].body.content) = Len(library.doc.pages)

\* the same PDF of two pages was extracted in full with 'pages' "2" and
\* with a 'pages' value that is no range
C20_Witness ==
    /\ Succeeded(1)
    /\ Succeeded(2)
    /\ upload[1].filename = a_pdf
    /\ upload[2].filename = a_pdf
    /\ upload[1].pages = one_page
    /\ upload[2].pages = bad_pages
    /\ outcome[1].body.pages = 2
    /\ outcome[2].body.pages = 2

\* the 500 answer of a DOCX upload that is no package names the temporary
\* file of the request
UnreadablePackageNamesPath ==
    /\ pc[1] = "done"
    /\ outcome[1].kind = "http_exception"
    /\ outcome[1].status = 500
    /\ local[1].ext = <<46, 100, 111, 99, 120>>
    /\ local[1].tmp_path # NoPath
    /\ outcome[1].detail =
          FailedDetail(local[1].filename,
                       [text |-> "Package not found at ", path |-> local[1].tmp_path])

====
